---- MODULE Spec2Model ----
(***************************************************************************)
(* Model of clone_client_sync/angle_estimator.py: the Interpol estimator   *)
(* (construction, the outlier filter, the IIR smoother and get_angles).    *)
(*                                                                         *)
(* Numbers.  Feature components are floats in the source; here they are    *)
(* fixed-point integers, and a division or square root rounds down where   *)
(* the float would round to nearest.  The IIR weight w is the integer      *)
(* w * W_DEN.  An ndarray is a sequence (one row per joint) of sequences   *)
(* of FEATURE_LEN components; a value that may also be None or NaN is a    *)
(* record [tag, a].                                                        *)
(***************************************************************************)
EXTENDS Integers, Sequences, FiniteSets, TLC

\* ---------------------------------------------------------------- bounds
MaxOps == 3            \* operations performed on one estimator
MaxSensors == 2        \* longest `sensors` argument of get_angles
MaxKey == 15           \* largest joint index occurring in a calibration table
MaxTicks == 3        \* telemetry readouts the stream delivers
MaxGets == 2         \* getter calls of the caller thread
MaxSets == 2         \* set_pressures calls of the caller thread
MaxFeatureOps == 2   \* get_angles calls made with sensor readings

\* ------------------------------------------------------- program constants
NUM_JOINTS == 15       \* range(15) in Interpol.__init__
PIXELS == 4            \* B_tot = np.zeros((no_sensors, 4, 3))
AXES == 3
FEATURE_LEN == PIXELS * AXES
W_DEN == 10            \* weights are tenths: w = 0.3 is 3
DEFAULT_SIG_MUL == 3   \* sig_mul: float = 3.0
ANGLE_DIM == 2         \* angles = np.zeros((no_sensors, 2))

FH3D04_TEMP_DIGIT2CELS == 72484471   \* 0.072484471 deg C / digit, in 1e-9
FH3D04_BASIC_GAIN_XY == 128
FH3D04_BASIC_GAIN_Z == 64
FH3D04_BASIC_DEC_LEN == 512
FH3D04_BASIC_SUPPLY == 26            \* 2.6, in tenths
DEFAULT_T_OFFSET == 4000             \* Config.t_offset: int = 4000
INTERPOL_GAIN_XY == 1024             \* Interpol(gain_xy: float = 1024)
INTERPOL_GAIN_Z == 512               \* Interpol(gain_z: float = 512)
TEMP_AT_OFFSET == 25                 \* + 25.0
\* coefficients of t^3, t^2, t, 1 in units of 1e-18, 1e-14, 1e-10, 1e-6
REMAP_PIXELS == <<3, 2, 0, 1>>          \* remap_pixels
REMAP_AXES == <<0, 2, 1>>               \* remap_axes
S_Z_COEF == <<26029, 56780, -43553, 11187>>
S_XY_COEF == <<24864, 54240, 41604, 10687>>

\* ------------------------------------------------------------ input sets
PopulationSet == {-1, 0, 1, 2}          \* filter_outlier_population
WeightSet == {-5, 3, 15}                \* filter_iir_new_sample_weight * W_DEN
SigmaSet == {-1, 0, 3}                  \* filter_outlier_sigma
SampleValues == {-60, 20, 60}           \* fill value of an array given to filter_outliers
SensorKinds == {"list", "ndarray"}      \* Python type of the `sensors` argument

\* A calibration file: the joint indexes that are keys of the JSON object,
\* those among them whose value is a sample list (the others are null), and
\* those of the latter whose samples give the angle as one bare float (the
\* others give a pair of floats).
Tables ==
  { [keys |-> 0..14, present |-> {0, 1}, scalar |-> {}],
    [keys |-> 0..14, present |-> {3}, scalar |-> {}],
    [keys |-> 0..14, present |-> {}, scalar |-> {}],
    [keys |-> 0..MaxKey, present |-> {0, MaxKey}, scalar |-> {}],
    [keys |-> 0..2, present |-> {0, 1, 2}, scalar |-> {}],
    [keys |-> 0..14, present |-> {0, 1}, scalar |-> {1}] }

\* NaiveMappingEstimatorBase.Config: hardware configurations
HwConfigs ==
  [t_offset : {3998, 4000}, dec_len : {256, 512, 1024},
   gain_xy : {128, 1024}, gain_z : {64, 512}, supply : {26, 33}]
\* the _latest_* attributes, in the order telemetry_consumer assigns them
LatestFields == {"telemetry", "pressures", "mag", "gr"}
WriteOrder == <<"telemetry", "pressures", "mag", "gr">>
StreamEnd == 0                          \* the None that disconnect enqueues
\* MagneticPixel readings and the sensors built from them: the four pixels
\* of a sensor are told apart by their readings
PixelReadings ==
  <<[x |-> 1, y |-> 0, z |-> 0], [x |-> 0, y |-> 2, z |-> 0],
    [x |-> 0, y |-> 0, z |-> -1], [x |-> 2, y |-> 1, z |-> 1]>>
RawCounts == {-1, 0, 2}                 \* raw x, y, z of a pixel
TempOffsets == {-2, 0, 3}               \* raw temperature minus the offset

\* ------------------------------------------------------------ array values
None == [tag |-> "None", a |-> <<>>]
NanScalar == [tag |-> "nan_scalar", a |-> <<>>]
NanArr == [tag |-> "nan", a |-> <<>>]
Arr(a) == [tag |-> "arr", a |-> a]

Fill(k, v) == [j \in 1..k |-> [c \in 1..FEATURE_LEN |-> v]]

Min2(x, y) == IF x <= y THEN x ELSE y
Max2(x, y) == IF x >= y THEN x ELSE y
Abs(x) == IF x >= 0 THEN x ELSE -x

RECURSIVE SumAt(_, _, _, _)
SumAt(pop, i, j, c) ==
  IF i > Len(pop) THEN 0 ELSE pop[i][j][c] + SumAt(pop, i + 1, j, c)

\* np.mean(population, axis=0) of a non-empty population
np_mean(pop) ==
  [j \in 1..Len(pop[1]) |->
     [c \in 1..FEATURE_LEN |-> SumAt(pop, 1, j, c) \div Len(pop)]]

RECURSIVE SumSqAt(_, _, _, _, _)
SumSqAt(pop, m, i, j, c) ==
  IF i > Len(pop) THEN 0
  ELSE (pop[i][j][c] - m) * (pop[i][j][c] - m) + SumSqAt(pop, m, i + 1, j, c)

RECURSIVE ISqrtFrom(_, _)
ISqrtFrom(n, r) == IF (r + 1) * (r + 1) > n THEN r ELSE ISqrtFrom(n, r + 1)
ISqrt(n) == ISqrtFrom(n, 0)

\* np.std(population, axis=0) of a non-empty population
np_std(pop) ==
  LET m == np_mean(pop) IN
  [j \in 1..Len(pop[1]) |->
     [c \in 1..FEATURE_LEN |->
        ISqrt(SumSqAt(pop, m[j][c], 1, j, c) \div Len(pop))]]

\* a clip that forgets the upper bound
np_clip_lower_only(x, lo, hi) == Max2(x, lo)

\* ndarray.clip(min, max) is minimum(maximum(x, min), max)
np_clip(x, lo, hi) == Min2(Max2(x, lo), hi)

\* an append on a deque without maxlen
deque_append_unbounded(q, x, maxlen) == Append(q, x)

\* deque.append on a deque(maxlen=maxlen)
deque_append(q, x, maxlen) ==
  IF maxlen = 0 THEN q
  ELSE IF Len(q) = maxlen THEN Append(Tail(q), x)
  ELSE Append(q, x)

\* ------------------------------------------------------ pixel calibration
\* Floats of the calibration are exact fractions [n, d] in lowest terms.
RECURSIVE Gcd(_, _)
Gcd(a, b) == IF b = 0 THEN a ELSE Gcd(b, a % b)
Frac(n, d) ==
  LET g == Gcd(Abs(n), Abs(d))
      sgn == IF d < 0 THEN -1 ELSE 1
  IN [n |-> sgn * (n \div g), d |-> sgn * (d \div g)]
FracMul(a, b) == Frac(a.n * b.n, a.d * b.d)
FracInv(a) == Frac(a.d, a.n)

\* NaiveMappingEstimatorBase.__init__
estimator_init(config) ==
  [config |-> config,
   t_dec_len_factor |-> Frac(FH3D04_BASIC_DEC_LEN, config.dec_len),
   h_config_ratio_z |->
     FracInv(FracMul(FracMul(Frac(config.gain_z, FH3D04_BASIC_GAIN_Z),
                             Frac(config.dec_len, FH3D04_BASIC_DEC_LEN)),
                     Frac(config.supply, FH3D04_BASIC_SUPPLY))),
   h_config_factor_xy |->
     FracInv(FracMul(FracMul(Frac(config.gain_xy, FH3D04_BASIC_GAIN_XY),
                             Frac(config.dec_len, FH3D04_BASIC_DEC_LEN)),
                     Frac(config.supply, FH3D04_BASIC_SUPPLY)))]

\* a temperature computed against the default offset, not the configured one
calculate_temp_default_offset(est, t_val) ==
  LET t_val_pp == t_val - DEFAULT_T_OFFSET
      t_val_pp_prime == Frac(t_val_pp * est.t_dec_len_factor.n,
                             est.t_dec_len_factor.d)
  IN [deg_c |-> [whole |-> TEMP_AT_OFFSET,
                 nano |-> Frac(t_val_pp_prime.n * FH3D04_TEMP_DIGIT2CELS,
                               t_val_pp_prime.d)],
      pp_prime |-> t_val_pp_prime]

\* NaiveMappingEstimatorBase._calculate_temp: the temperature in deg C, as
\* whole + nano * 1e-9, and t_val_pp_prime
calculate_temp(est, t_val) ==
  LET t_val_pp == t_val - est.config.t_offset
      t_val_pp_prime == Frac(t_val_pp * est.t_dec_len_factor.n,
                             est.t_dec_len_factor.d)
  IN [deg_c |-> [whole |-> TEMP_AT_OFFSET,
                 nano |-> Frac(t_val_pp_prime.n * FH3D04_TEMP_DIGIT2CELS,
                               t_val_pp_prime.d)],
      pp_prime |-> t_val_pp_prime]

\* _s_z and _s_xy: the four terms of the cubic, each in its own unit
s_poly(coef, t) ==
  <<Frac(coef[1] * t.n * t.n * t.n, t.d * t.d * t.d),
    Frac(coef[2] * t.n * t.n, t.d * t.d),
    Frac(coef[3] * t.n, t.d),
    Frac(coef[4], 1)>>
s_z(t_val_pp_prime) == s_poly(S_Z_COEF, t_val_pp_prime)
s_xy(t_val_pp_prime) == s_poly(S_XY_COEF, t_val_pp_prime)

\* h_1 * s: the product term by term
scale_terms(h_1, s) == [i \in 1..4 |-> FracMul(h_1, s[i])]

\* _calculate_teslas_z and _calculate_teslas_xy
calculate_teslas_z(est, h_val, t_val_pp_prime) ==
  LET h_1 == Frac(h_val * est.h_config_ratio_z.n, est.h_config_ratio_z.d)
  IN scale_terms(h_1, s_z(t_val_pp_prime))
calculate_teslas_xy(est, h_val, t_val_pp_prime) ==
  LET h_1 == Frac(h_val * est.h_config_factor_xy.n, est.h_config_factor_xy.d)
  IN scale_terms(h_1, s_xy(t_val_pp_prime))

\* NaiveMappingEstimatorBase.calculate_sensor
calculate_sensor(est, x, y, z, temperature) ==
  LET tt == calculate_temp(est, temperature) IN
  [t |-> tt.deg_c,
   b |-> <<calculate_teslas_xy(est, x, tt.pp_prime),
           calculate_teslas_xy(est, y, tt.pp_prime),
           calculate_teslas_z(est, z, tt.pp_prime)>>]

\* ------------------------------------------------------ feature vectors
\* a zero of np.zeros, as a fraction and as the four terms of a flux
ZeroFrac == [n |-> 0, d |-> 1]
ZeroFlux == [i \in 1..4 |-> ZeroFrac]

\* remap_pixels: the pixels of a sensor at the indices 3, 2, 0, 1
remap_pixels(pixels) == [i \in 1..PIXELS |-> pixels[REMAP_PIXELS[i] + 1]]

\* unary minus on a flux
neg_flux(b) == [i \in 1..4 |-> Frac(-b[i].n, b[i].d)]

\* remap_axes: -b_arr[:, [0, 2, 1]]
remap_axes(b_arr) ==
  [p \in 1..Len(b_arr) |->
     [a \in 1..AXES |-> neg_flux(b_arr[p][REMAP_AXES[a] + 1])]]

\* b.ravel() of a (4, 3) array: row-major
ravel(b) ==
  [c \in 1..FEATURE_LEN |-> b[((c - 1) \div AXES) + 1][((c - 1) % AXES) + 1]]

\* the body of the sensor loop of get_angles: B of one sensor
sensor_B(est, sensor) ==
  LET pixels == remap_pixels(sensor.pixels)
      B == [pidx \in 1..PIXELS |->
              calculate_sensor(est, pixels[pidx].x, pixels[pidx].y,
                               pixels[pidx].z, sensor.temperature).b]
  IN remap_axes(B)

\* B_tot after the sensor loop: zeros of shape (no_sensors, 4, 3) with the
\* entry of every sensor written
sensor_loop(est, sensors, no_sensors) ==
  [idx \in 1..no_sensors |->
     IF idx <= Len(sensors) THEN sensor_B(est, sensors[idx])
     ELSE [p \in 1..PIXELS |-> [a \in 1..AXES |-> ZeroFlux]]]

\* np.asarray([b.ravel() for b in B_tot])
ravel_rows(B_tot) == [j \in 1..Len(B_tot) |-> ravel(B_tot[j])]

\* ------------------------------------------------------------ construction
\* Interpol._load_mapping: dict from int(key) to the sample list, or None
load_mapping(table) ==
  [idx \in table.keys |-> IF idx \in table.present THEN "samples" ELSE "None"]

\* a loader that takes a bare float for an angle
load_error_scalar_ok(table) == "ok"

\* Interpol._load_mapping: the exception it raises, "ok" for none.
\* float(ang[0]) subscripts the angle: a bare float is not subscriptable.
load_error(table) ==
  IF table.scalar # {} THEN "TypeError" ELSE "ok"

\* the list comprehension of Interpol.__init__: one RBFInterpolator for each
\* idx in range(15) whose mapping[idx] is not None, in increasing idx
RECURSIVE fit_from(_, _)
fit_from(mapping, idx) ==
  IF idx >= NUM_JOINTS THEN <<>>
  ELSE (IF mapping[idx] # "None" THEN <<idx>> ELSE <<>>) \o fit_from(mapping, idx + 1)

\* a fit over every key of the table, beyond range(15) too
RECURSIVE fit_upto(_, _, _)
fit_upto(mapping, idx, top) ==
  IF idx > top THEN <<>>
  ELSE (IF idx \in DOMAIN mapping /\ mapping[idx] # "None" THEN <<idx>> ELSE <<>>)
         \o fit_upto(mapping, idx + 1, top)
fit_all_keys(mapping) == fit_upto(mapping, 0, MaxKey + 1)

\* a fit that does not skip the joints whose entry is None
fit_with_none(mapping) == [i \in 1..NUM_JOINTS |-> i - 1]

fit_interpolators(mapping) == fit_from(mapping, 0)

\* Interpol.__init__: the exception it raises ("ok" for none) and the
\* attributes assigned before the raise
Interpol_init(table, population, weight, sigma, use_out, use_iir) ==
  LET mapping == load_mapping(table)
      unset == [err |-> "ok", interpolators |-> <<>>, population |-> 0,
                sigma |-> 0, use_out |-> FALSE, use_iir |-> FALSE, weight |-> 0]
  IN
  IF load_error(table) # "ok"
  THEN [unset EXCEPT !.err = load_error(table)]
  ELSE IF \E idx \in 0..(NUM_JOINTS - 1) : idx \notin DOMAIN mapping
  THEN [unset EXCEPT !.err = "KeyError"]
  ELSE LET attrs == [unset EXCEPT !.interpolators = fit_interpolators(mapping),
                                  !.population = population,
                                  !.sigma = sigma,
                                  !.use_out = use_out,
                                  !.use_iir = use_iir]
       IN
       IF W_DEN < weight /\ weight < 0
       THEN [attrs EXCEPT !.err = "ValueError"]
       ELSE IF population < 0            \* deque(maxlen=negative)
       THEN [attrs EXCEPT !.err = "ValueError"]
       ELSE [attrs EXCEPT !.weight = weight]

\* ------------------------------------------------------------ the filters
\* an outlier filter that does not store the sample while it warms up
filter_outliers_no_push(samples, population, arr_flat, sig_mul) ==
  IF Len(samples) < population
  THEN [ret |-> None, samples |-> samples]
  ELSE [ret |-> Arr(arr_flat), samples |-> samples]

\* Interpol.filter_outliers: the returned value and the deque afterwards
filter_outliers(samples, population, arr_flat, sig_mul) ==
  IF Len(samples) < population
  THEN [ret |-> None, samples |-> deque_append(samples, arr_flat, population)]
  ELSE IF Len(samples) = 0                      \* mean and std of nothing are NaN
  THEN [ret |-> IF Len(arr_flat) = 0 THEN Arr(arr_flat) ELSE NanArr,
        samples |-> samples]
  ELSE LET means == np_mean(samples)
           std == np_std(samples)
       IN [ret |-> Arr([j \in 1..Len(arr_flat) |->
                         [c \in 1..FEATURE_LEN |->
                            np_clip(arr_flat[j][c],
                                    means[j][c] - sig_mul * std[j][c],
                                    means[j][c] + sig_mul * std[j][c])]]),
           samples |-> samples]

\* Interpol._filter_iir: the exception raised, the returned value and
\* _iir_state afterwards.  np.stack raises ValueError when the shapes of the
\* sample and of the state differ (the state is the scalar NaN when it was
\* seeded from an empty deque).
filter_iir(samples, state, arr_flat, weight) ==
  LET seeded == IF state.tag = "None"
                THEN (IF Len(samples) = 0 THEN NanScalar ELSE Arr(np_mean(samples)))
                ELSE state
  IN
  IF seeded.tag = "nan_scalar"
  THEN [err |-> "ValueError", ret |-> None, state |-> seeded]
  ELSE IF seeded.tag = "nan" \/ arr_flat.tag = "nan"
  THEN [err |-> "ok", ret |-> NanArr, state |-> NanArr]
  ELSE LET avg == Arr([j \in 1..Len(arr_flat.a) |->
                        [c \in 1..FEATURE_LEN |->
                           (weight * arr_flat.a[j][c]
                              + (W_DEN - weight) * seeded.a[j][c]) \div W_DEN]])
       IN [err |-> "ok", ret |-> avg, state |-> avg]

\* ------------------------------------------------------------- get_angles
\* `len(sensors != len(self.interpolators))`: the exception the test raises,
\* "raise" when it is true, "pass" when it is false.  A list (or any other
\* sequence without an element-wise !=) compares unequal to an int, and
\* len(True) raises TypeError.  An ndarray compares element-wise, and the
\* len of the result is the number of sensors.
count_check(kind, n, k) ==
  IF kind = "ndarray"
  THEN (IF n # 0 THEN "raise" ELSE "pass")
  ELSE "TypeError"

\* a get_angles that stores the sample before it checks the sensor count
get_angles_push_first(st, kind, n) ==
  LET k == Len(st.interpolators)
      passed == count_check(kind, n, k) = "pass"
  IN [res |-> IF passed THEN "NotReady" ELSE "ValueError",
      where |-> IF passed THEN "" ELSE "count",
      nangles |-> 0, ncomp |-> 0, raw |-> Arr(Fill(k, 0)),
      clipped |-> None, pre |-> None,
      samples |-> deque_append(st.samples, Fill(k, 0), st.population),
      iir_state |-> st.iir_state]

\* Interpol.get_angles, for a `sensors` of Python type kind holding n sensors.
\* The loop over the sensors runs only after count_check passed, and then
\* sensors is empty: B_tot keeps its zeros.
get_angles(st, kind, n) ==
  LET k == Len(st.interpolators)
      chk == count_check(kind, n, k)
      B_flat == Fill(k, 0)
      call == [res |-> "None", where |-> "", nangles |-> 0, ncomp |-> 0,
               raw |-> Arr(B_flat),
               clipped |-> None, pre |-> None,
               samples |-> st.samples, iir_state |-> st.iir_state]
      fo == filter_outliers(st.samples, st.population, B_flat, st.sigma)
      pushed == IF fo.ret.tag = "None" THEN fo.samples
                ELSE deque_append(fo.samples, fo.ret.a, st.population)
      outl == IF st.use_out
              THEN [call EXCEPT !.clipped = fo.ret, !.pre = fo.ret, !.samples = pushed]
              ELSE [call EXCEPT !.pre = Arr(B_flat)]
      iir == filter_iir(outl.samples, st.iir_state, outl.pre, st.weight)
      smooth == IF st.use_iir
                THEN [outl EXCEPT !.pre = iir.ret, !.iir_state = iir.state]
                ELSE outl
  IN
  IF chk = "TypeError" THEN [call EXCEPT !.res = "TypeError", !.where = "count"]
  ELSE IF chk = "raise" THEN [call EXCEPT !.res = "ValueError", !.where = "count"]
  ELSE IF st.use_out /\ fo.ret.tag = "None" THEN [outl EXCEPT !.res = "NotReady"]
  ELSE IF st.use_iir /\ iir.err # "ok"
  THEN [smooth EXCEPT !.res = "ValueError", !.where = "iir"]
  ELSE [smooth EXCEPT !.res = "angles", !.nangles = k, !.ncomp = ANGLE_DIM]

\* ------------------------------------------------------------------ state
VARIABLES
  pc,             \* "new" before Interpol(...), then "ready" or "failed"
  ctor_err,       \* the exception Interpol(...) raised, "ok" for none
  table,          \* the calibration file given to Interpol(...)
  interpolators,  \* self.interpolators: the joint index each one was fitted for
  population,     \* self._filter_outliers_population
  sigma,          \* self.filter_outliers_sigma
  use_out,        \* self.use_filter_outliers
  use_iir,        \* self.use_filter_iir
  weight,         \* self._iir_new_sample_weight
  samples,        \* self._filt_samples
  iir_state,      \* self._iir_state
  calls,          \* get_angles calls made so far
  direct,         \* filter_outliers calls made by the user so far
  all_valid,      \* every get_angles call so far had one sensor per interpolator
  last,           \* the last call: its arguments, its result, the state it found
  pair,           \* two estimators side by side: the attributes of each
  solo,           \* the same two estimators, each fed its own calls alone
  pair_last,      \* the last call on the pair: the estimator and the results
  hw,             \* a NaiveMappingEstimatorBase: its config and cached ratios
  px,             \* the last calculate_sensor call: arguments and result
  cs,             \* a ClientSync, its caller thread and its background thread
  fe,             \* an Interpol and its estimator, called with sensor readings
  fcall           \* the last get_angles call on fe: sensors, result, B rows

interpol_vars == <<pc, ctor_err, table, interpolators, population, sigma, use_out,
                   use_iir, weight, samples, iir_state, calls, direct, all_valid,
                   last>>
pair_vars == <<pair, solo, pair_last>>
pixel_vars == <<hw, px>>
sync_vars == <<cs>>
feature_vars == <<fe, fcall>>

vars == <<interpol_vars, pair_vars, pixel_vars, sync_vars, feature_vars>>

NoCall == [op |-> "none", kind |-> "", n |-> 0, sig_mul |-> 0,
           res |-> "None", where |-> "", nangles |-> 0, ncomp |-> 0,
           raw |-> None, clipped |-> None, pre |-> None,
           samples0 |-> <<>>, iir0 |-> None]

Self == [interpolators |-> interpolators, population |-> population,
         sigma |-> sigma, use_out |-> use_out, use_iir |-> use_iir,
         weight |-> weight, samples |-> samples, iir_state |-> iir_state]

\* no single estimator is in use
InterpolIdle ==
  /\ pc = "new"
  /\ ctor_err = "ok"
  /\ table = [keys |-> {}, present |-> {}, scalar |-> {}]
  /\ interpolators = <<>>
  /\ population = 0
  /\ sigma = 0
  /\ use_out = FALSE
  /\ use_iir = FALSE
  /\ weight = 0
  /\ samples = <<>>
  /\ iir_state = None
  /\ calls = 0
  /\ direct = 0
  /\ all_valid = TRUE
  /\ last = NoCall

NoPairCall == [who |-> 0, ops |-> 0, res |-> "None", pre |-> None,
               solo_res |-> "None", solo_pre |-> None]

\* no pair of estimators is in use
PairIdle ==
  /\ pair = <<>>
  /\ solo = <<>>
  /\ pair_last = NoPairCall

NoPixel == [done |-> FALSE, x |-> 0, y |-> 0, z |-> 0, temperature |-> 0,
            t |-> [whole |-> 0, nano |-> [n |-> 0, d |-> 1]], b |-> <<>>]

\* no pixel calibrator is in use
PixelIdle ==
  /\ hw = [config |-> <<>>]
  /\ px = NoPixel

\* ClientSync.__init__: the four threading.Events are clear, the _latest_*
\* attributes are not assigned yet (tick 0), the thread is not started
ClientSync_init ==
  [main |-> "new", field |-> "telemetry", val |-> 0, vec |-> 0,
   got |-> <<>>, nsets |-> 0,
   trcv |-> FALSE, pack |-> FALSE, connected |-> FALSE, stop |-> FALSE,
   ready |-> FALSE, latest |-> [f \in LatestFields |-> 0],
   pqueue_in |-> <<>>, sent |-> <<>>,
   loop |-> "off", cur |-> "none", ready_q |-> <<>>,
   run_pc |-> "off", ctrl_pc |-> "off", tele_pc |-> "off",
   cancel_req |-> {}, item |-> 0, wi |-> 1, tick |-> 0, inbox |-> 0]

\* no ClientSync is in use
SyncIdle == cs = ClientSync_init

NoFeatureCall == [ops |-> 0, kind |-> "", sensors |-> <<>>, res |-> "None",
                  where |-> "", rows |-> <<>>]

\* no estimator is called with sensor readings
FeatureIdle ==
  /\ fe = [st |-> <<>>, est |-> <<>>]
  /\ fcall = NoFeatureCall

Init ==
  /\ InterpolIdle
  /\ PairIdle
  /\ PixelIdle
  /\ SyncIdle
  /\ FeatureIdle

\* interpol = Interpol(mapping_path, ...)
Construct ==
  /\ pc = "new"
  /\ \E t \in Tables, p \in PopulationSet, w \in WeightSet, s \in SigmaSet,
        uo \in BOOLEAN, ui \in BOOLEAN :
     \E r \in {Interpol_init(t, p, w, s, uo, ui)} :
       /\ pc' = IF r.err = "ok" THEN "ready" ELSE "failed"
       /\ ctor_err' = r.err
       /\ table' = t
       /\ interpolators' = r.interpolators
       /\ population' = r.population
       /\ sigma' = r.sigma
       /\ use_out' = r.use_out
       /\ use_iir' = r.use_iir
       /\ weight' = r.weight
  /\ UNCHANGED <<samples, iir_state, calls, direct, all_valid, last>>
  /\ UNCHANGED <<pair_vars, pixel_vars, sync_vars, feature_vars>>

\* interpol.get_angles(sensors)
GetAngles ==
  /\ pc = "ready"
  /\ calls + direct < MaxOps
  /\ \E kind \in SensorKinds, n \in 0..MaxSensors :
     \E r \in {get_angles(Self, kind, n)} :
       /\ samples' = r.samples
       /\ iir_state' = r.iir_state
       /\ all_valid' = (all_valid /\ n = Len(interpolators))
       /\ last' = [NoCall EXCEPT !.op = "get_angles", !.kind = kind, !.n = n,
                                 !.res = r.res, !.where = r.where,
                                 !.nangles = r.nangles, !.ncomp = r.ncomp,
                                 !.raw = r.raw,
                                 !.clipped = r.clipped, !.pre = r.pre,
                                 !.samples0 = samples, !.iir0 = iir_state]
  /\ calls' = calls + 1
  /\ UNCHANGED <<pc, ctor_err, table, interpolators, population, sigma,
                 use_out, use_iir, weight, direct>>
  /\ UNCHANGED <<pair_vars, pixel_vars, sync_vars, feature_vars>>

\* interpol.filter_outliers(arr_flat), called by the user with an
\* array of the shape get_angles builds
FilterOutliers ==
  /\ pc = "ready"
  /\ calls + direct < MaxOps
  /\ \E v \in SampleValues :
     \E arr \in {Fill(Len(interpolators), v)} :
     \E r \in {filter_outliers(samples, population, arr, DEFAULT_SIG_MUL)} :
       /\ samples' = r.samples
       /\ last' = [NoCall EXCEPT !.op = "filter_outliers", !.sig_mul = DEFAULT_SIG_MUL,
                                 !.res = IF r.ret.tag = "None" THEN "NotReady"
                                         ELSE "clipped",
                                 !.raw = Arr(arr), !.clipped = r.ret,
                                 !.pre = r.ret, !.samples0 = samples,
                                 !.iir0 = iir_state]
  /\ direct' = direct + 1
  /\ UNCHANGED <<pc, ctor_err, table, interpolators, population, sigma,
                 use_out, use_iir, weight, iir_state, calls, all_valid>>
  /\ UNCHANGED <<pair_vars, pixel_vars, sync_vars, feature_vars>>

Next == Construct \/ GetAngles \/ FilterOutliers

Spec == Init /\ [][Next]_vars

\* ------------------------------------------------------- two estimators
MaxPairOps == 3        \* calls made on the two estimators together

\* the estimators the pair is drawn from: Interpol(...) on a table with
\* one calibrated joint
PairInstances ==
  { [interpolators |-> r.interpolators, population |-> r.population,
     sigma |-> r.sigma, use_out |-> r.use_out, use_iir |-> r.use_iir,
     weight |-> r.weight, samples |-> <<>>, iir_state |-> None] :
    r \in { Interpol_init([keys |-> 0..14, present |-> {3}, scalar |-> {}],
                          p, 3, 0, TRUE, ui) : p \in {1, 2}, ui \in BOOLEAN } }

\* filter state kept in class attributes, shared by all instances
class_attrs(own, acted) ==
  [own EXCEPT !.samples = acted.samples, !.iir_state = acted.iir_state]

\* self._filt_samples and self._iir_state are created in __init__, one per
\* instance: what an instance holds after a call made on another instance
instance_attrs(own, acted) == own

PairInit ==
  /\ FeatureIdle
  /\ InterpolIdle
  /\ PixelIdle
  /\ SyncIdle
  /\ pair \in [1..2 -> PairInstances]
  /\ solo = pair
  /\ pair_last = NoPairCall

\* the pair after a call on estimator i left it with these samples and state
after_call(p, i, new_samples, new_state) ==
  LET mine == [p[i] EXCEPT !.samples = new_samples, !.iir_state = new_state]
  IN [j \in 1..2 |-> IF j = i THEN mine ELSE instance_attrs(p[j], mine)]

\* pair[i].get_angles(sensors)
PairGetAngles ==
  /\ pair_last.ops < MaxPairOps
  /\ \E i \in 1..2, kind \in SensorKinds, n \in 0..MaxSensors :
     \E r \in {get_angles(pair[i], kind, n)}, a \in {get_angles(solo[i], kind, n)} :
       /\ pair' = after_call(pair, i, r.samples, r.iir_state)
       /\ solo' = [solo EXCEPT ![i].samples = a.samples,
                               ![i].iir_state = a.iir_state]
       /\ pair_last' = [who |-> i, ops |-> pair_last.ops + 1,
                        res |-> r.res, pre |-> r.pre,
                        solo_res |-> a.res, solo_pre |-> a.pre]
  /\ UNCHANGED <<interpol_vars, pixel_vars, sync_vars, feature_vars>>

\* pair[i].filter_outliers(arr_flat)
PairFilterOutliers ==
  /\ pair_last.ops < MaxPairOps
  /\ \E i \in 1..2, v \in SampleValues :
     \E arr \in {Fill(Len(pair[i].interpolators), v)} :
     \E r \in {filter_outliers(pair[i].samples, pair[i].population, arr,
                               DEFAULT_SIG_MUL)},
        a \in {filter_outliers(solo[i].samples, solo[i].population, arr,
                               DEFAULT_SIG_MUL)} :
       /\ pair' = after_call(pair, i, r.samples, pair[i].iir_state)
       /\ solo' = [solo EXCEPT ![i].samples = a.samples]
       /\ pair_last' = [who |-> i, ops |-> pair_last.ops + 1,
                        res |-> IF r.ret.tag = "None" THEN "NotReady" ELSE "clipped",
                        pre |-> r.ret,
                        solo_res |-> IF a.ret.tag = "None" THEN "NotReady"
                                    ELSE "clipped",
                        solo_pre |-> a.ret]
  /\ UNCHANGED <<interpol_vars, pixel_vars, sync_vars, feature_vars>>

PairNext == PairGetAngles \/ PairFilterOutliers

PairSpec == PairInit /\ [][PairNext]_vars

\* ----------------------------------------------------- pixel calibrator
\* estimator = NaiveMappingEstimatorBase(config)
PixelInit ==
  /\ FeatureIdle
  /\ InterpolIdle
  /\ PairIdle
  /\ SyncIdle
  /\ hw \in {estimator_init(c) : c \in HwConfigs}
  /\ px = NoPixel

\* estimator.calculate_sensor(x, y, z, temperature)
CalculateSensor ==
  /\ \E x \in RawCounts, y \in RawCounts, z \in RawCounts, dt \in TempOffsets :
     \E r \in {calculate_sensor(hw, x, y, z, hw.config.t_offset + dt)} :
       px' = [done |-> TRUE, x |-> x, y |-> y, z |-> z,
              temperature |-> hw.config.t_offset + dt, t |-> r.t, b |-> r.b]
  /\ UNCHANGED <<interpol_vars, pair_vars, hw, sync_vars, feature_vars>>

PixelNext == CalculateSensor

PixelSpec == PixelInit /\ [][PixelNext]_vars

\* ------------------------------------------------------------ ClientSync
\* The caller thread runs connnect, the getters, set_pressures and
\* disconnect; the background thread runs an asyncio loop with the run()
\* coroutine and its two stream tasks.  cs.cur is the coroutine the loop is
\* executing, cs.ready_q the loop's queue of scheduled wake-ups.  A wake-up
\* scheduled by the caller thread (Queue.put_nowait, Task.cancel) is
\* appended without waking a loop that sleeps in select().

TaskDone(at) == at \in {"done", "cancelled"}

\* a task ends: run() is scheduled if it awaits that task
notify_done(c, t) ==
  IF \/ t = "ctrl" /\ c.run_pc = "r_await_ctrl"
     \/ t = "tele" /\ c.run_pc = "r_await_tele"
  THEN Append(c.ready_q, "run") ELSE c.ready_q

\* a coroutine awaits a pending future; a task flagged _must_cancel has the
\* future cancelled at once and is scheduled again
block_q(c, t) ==
  IF t \in c.cancel_req THEN Append(c.ready_q, t) ELSE c.ready_q

\* asyncio.Queue.put_nowait called from the caller thread
put_nowait(c, x) ==
  [c EXCEPT !.pqueue_in = Append(@, x),
            !.ready_q = IF c.ctrl_pc = "c_get" THEN Append(@, "ctrl") ELSE @,
            !.ctrl_pc = IF @ = "c_get" THEN "c_get_woken" ELSE @]

\* asyncio.Task.cancel called from the caller thread
task_cancel(c, t) ==
  LET at == IF t = "ctrl" THEN c.ctrl_pc ELSE c.tele_pc
      pending == at \in {"c_get", "t_recv"}
  IN IF TaskDone(at) THEN c
     ELSE [c EXCEPT !.cancel_req = @ \cup {t},
                    !.ready_q = IF pending THEN Append(@, t) ELSE @,
                    !.ctrl_pc = IF t = "ctrl" /\ pending THEN "c_get_woken" ELSE @,
                    !.tele_pc = IF t = "tele" /\ pending THEN "t_cancelling" ELSE @]

SyncStays == UNCHANGED <<interpol_vars, pair_vars, pixel_vars, feature_vars>>

\* ---- caller thread
\* connnect: _stop.clear(); _thread.start() (with _run_in_background up to
\* run_until_complete)
Connnect ==
  /\ cs.main = "new"
  /\ cs' = [cs EXCEPT !.stop = FALSE, !.ready = FALSE, !.pqueue_in = <<>>,
                      !.loop = "run", !.cur = "run", !.run_pc = "r_create",
                      !.main = "c_wait"]
  /\ SyncStays

\* connnect: connected.wait() returns
ConnnectReturn ==
  /\ cs.main = "c_wait" /\ cs.connected
  /\ cs' = [cs EXCEPT !.main = "idle"]
  /\ SyncStays

\* a getter, timeout None: self._trcv.wait() returns
GetterWait ==
  /\ cs.main = "idle" /\ Len(cs.got) < MaxGets
  /\ cs.trcv
  /\ \E f \in LatestFields : cs' = [cs EXCEPT !.main = "g_read", !.field = f]
  /\ SyncStays

\* a getter: x = self._latest_*
GetterRead ==
  /\ cs.main = "g_read"
  /\ cs' = [cs EXCEPT !.val = cs.latest[cs.field], !.main = "g_clear"]
  /\ SyncStays

\* a getter: self._trcv.clear(); return x
GetterClear ==
  /\ cs.main = "g_clear"
  /\ cs' = [cs EXCEPT !.trcv = FALSE, !.got = Append(@, cs.val),
                      !.main = "idle"]
  /\ SyncStays

\* set_pressures: self._pack.clear()
SetPressuresClear ==
  /\ cs.main = "idle" /\ cs.nsets < MaxSets
  /\ cs' = [cs EXCEPT !.pack = FALSE, !.nsets = @ + 1, !.vec = cs.nsets + 1,
                      !.main = "s_put"]
  /\ SyncStays

\* set_pressures: self._pqueue_in.put_nowait(pressures)
SetPressuresPut ==
  /\ cs.main = "s_put"
  /\ cs' = [put_nowait(cs, cs.vec) EXCEPT !.main = "s_wait"]
  /\ SyncStays

\* set_pressures, timeout None: self._pack.wait() returns
SetPressuresReturn ==
  /\ cs.main = "s_wait" /\ cs.pack
  /\ cs' = [cs EXCEPT !.main = "idle"]
  /\ SyncStays

\* disconnect: self._pqueue_in.put_nowait(None)
DisconnectPut ==
  /\ cs.main = "idle"
  /\ cs' = [put_nowait(cs, StreamEnd) EXCEPT !.main = "d_stop"]
  /\ SyncStays

\* disconnect: self._stop.set()
DisconnectStop ==
  /\ cs.main = "d_stop"
  /\ cs' = [cs EXCEPT !.stop = TRUE, !.main = "d_cancel_ctrl"]
  /\ SyncStays

\* disconnect: for task in self.tasks: task.cancel()
DisconnectCancel ==
  /\ cs.main \in {"d_cancel_ctrl", "d_cancel_tele"}
  /\ cs' = IF cs.main = "d_cancel_ctrl"
           THEN [task_cancel(cs, "ctrl") EXCEPT !.main = "d_cancel_tele"]
           ELSE [task_cancel(cs, "tele") EXCEPT !.main = "d_join"]
  /\ SyncStays

\* disconnect: self._thread.join() returns
DisconnectJoin ==
  /\ cs.main = "d_join" /\ cs.loop = "done"
  /\ cs' = [cs EXCEPT !.main = "d_clear"]
  /\ SyncStays

\* disconnect: self.connected.clear()
DisconnectClear ==
  /\ cs.main = "d_clear"
  /\ cs' = [cs EXCEPT !.connected = FALSE, !.main = "closed"]
  /\ SyncStays

\* ---- background thread: run()
\* create the two tasks, self.tasks = [...]
RunCreateTasks ==
  /\ cs.loop = "run" /\ cs.cur = "run" /\ cs.run_pc = "r_create"
  /\ cs' = [cs EXCEPT !.ctrl_pc = "start", !.tele_pc = "start",
                      !.ready_q = <<"ctrl", "tele">>,
                      !.run_pc = "r_connected"]
  /\ SyncStays

\* self.connected.set()
RunConnected ==
  /\ cs.loop = "run" /\ cs.cur = "run" /\ cs.run_pc = "r_connected"
  /\ cs' = [cs EXCEPT !.connected = TRUE, !.run_pc = "r_ready"]
  /\ SyncStays

\* self.ready.set(); await control_stream_task
RunReady ==
  /\ cs.loop = "run" /\ cs.cur = "run" /\ cs.run_pc = "r_ready"
  /\ cs' = [cs EXCEPT !.ready = TRUE, !.run_pc = "r_await_ctrl",
                      !.cur = "none"]
  /\ SyncStays

\* run() resumes when the awaited task has ended: a cancelled task raises
\* CancelledError into run(), which logs and returns; after the control
\* stream task, await telemetry_stream_task.  When run() returns,
\* run_until_complete returns and the thread ends.
RunResume ==
  /\ cs.loop = "run" /\ cs.cur = "run"
  /\ cs.run_pc \in {"r_await_ctrl", "r_await_tele"}
  /\ cs' = IF cs.run_pc = "r_await_ctrl" /\ cs.ctrl_pc = "done"
                /\ ~TaskDone(cs.tele_pc)
           THEN [cs EXCEPT !.run_pc = "r_await_tele", !.cur = "none"]
           ELSE [cs EXCEPT !.run_pc = "done", !.cur = "none",
                           !.loop = "done"]
  /\ SyncStays

\* ---- background thread: the event loop
\* the loop runs the next scheduled wake-up; a task whose cancellation was
\* requested ends with CancelledError
LoopPick ==
  /\ cs.loop = "run" /\ cs.cur = "none" /\ cs.ready_q # <<>>
  /\ LET t == Head(cs.ready_q)
         c == [cs EXCEPT !.ready_q = Tail(@)]
     IN cs' = IF t # "run" /\ t \in cs.cancel_req
              THEN [c EXCEPT !.ctrl_pc = IF t = "ctrl" THEN "cancelled" ELSE @,
                             !.tele_pc = IF t = "tele" THEN "cancelled" ELSE @,
                             !.ready_q = notify_done(c, t)]
              ELSE [c EXCEPT !.cur = t]
  /\ SyncStays

\* nothing is scheduled: the loop blocks in select()
LoopSleep ==
  /\ cs.loop = "run" /\ cs.cur = "none" /\ cs.ready_q = <<>>
  /\ cs' = [cs EXCEPT !.loop = "sleep"]
  /\ SyncStays

\* ---- background thread: ctrl_generator under client.stream_set_pressures
\* await self.ready.wait()
CtrlStart ==
  /\ cs.loop = "run" /\ cs.cur = "ctrl" /\ cs.ctrl_pc = "start"
  /\ cs.ready
  /\ cs' = [cs EXCEPT !.ctrl_pc = "c_while"]
  /\ SyncStays

\* while not self._stop.is_set(): data = await self._pqueue_in.get()
CtrlWhile ==
  /\ cs.loop = "run" /\ cs.cur = "ctrl"
  /\ cs.ctrl_pc \in {"c_while", "c_get_woken"}
  /\ cs' = IF cs.ctrl_pc = "c_while" /\ cs.stop
           THEN [cs EXCEPT !.ctrl_pc = "done", !.cur = "none",
                           !.ready_q = notify_done(cs, "ctrl")]
           ELSE IF cs.pqueue_in # <<>>
           THEN [cs EXCEPT !.item = Head(cs.pqueue_in),
                           !.pqueue_in = Tail(@), !.ctrl_pc = "c_item"]
           ELSE [cs EXCEPT !.ctrl_pc = "c_get", !.cur = "none",
                           !.ready_q = block_q(cs, "ctrl")]
  /\ SyncStays

\* if data is None: return; yield data (the stream takes it and asks for
\* the next one)
CtrlItem ==
  /\ cs.loop = "run" /\ cs.cur = "ctrl" /\ cs.ctrl_pc = "c_item"
  /\ cs' = IF cs.item = StreamEnd
           THEN [cs EXCEPT !.ctrl_pc = "done", !.cur = "none",
                           !.ready_q = notify_done(cs, "ctrl")]
           ELSE [cs EXCEPT !.sent = Append(@, cs.item), !.ctrl_pc = "c_ack",
                           !.cur = "none", !.ready_q = Append(@, "ctrl")]
  /\ SyncStays

\* self._pack.set()
CtrlAck ==
  /\ cs.loop = "run" /\ cs.cur = "ctrl" /\ cs.ctrl_pc = "c_ack"
  /\ cs' = [cs EXCEPT !.pack = TRUE, !.ctrl_pc = "c_while"]
  /\ SyncStays

\* ---- background thread: telemetry_consumer
\* await self.ready.wait(); async for telemetry in subscribe_telemetry()
TeleStart ==
  /\ cs.loop = "run" /\ cs.cur = "tele" /\ cs.tele_pc = "start"
  /\ cs.ready
  /\ cs' = [cs EXCEPT !.tele_pc = "t_recv", !.cur = "none",
                      !.ready_q = block_q(cs, "tele")]
  /\ SyncStays

\* the stream delivers the next readout: the loop wakes up on the I/O; the
\* readout resolves the pending read of the consumer, if there is one
TelemetryArrives ==
  /\ cs.loop \in {"run", "sleep"}
  /\ \/ cs.tele_pc = "t_recv" /\ cs.tick < MaxTicks
     \/ cs.tele_pc = "t_cancelling" /\ cs.loop = "sleep"
  /\ cs' = IF cs.tele_pc = "t_recv"
           THEN [cs EXCEPT !.tick = @ + 1, !.inbox = cs.tick + 1,
                           !.tele_pc = "t_got", !.ready_q = Append(@, "tele"),
                           !.loop = "run"]
           ELSE [cs EXCEPT !.loop = "run"]
  /\ SyncStays

\* if self._stop.is_set(): return
TeleCheckStop ==
  /\ cs.loop = "run" /\ cs.cur = "tele" /\ cs.tele_pc = "t_got"
  /\ cs' = IF cs.stop
           THEN [cs EXCEPT !.tele_pc = "done", !.cur = "none",
                           !.ready_q = notify_done(cs, "tele")]
           ELSE [cs EXCEPT !.tele_pc = "t_write", !.wi = 1]
  /\ SyncStays

\* self._latest_telemetry = telemetry ... self._latest_gr = ...: one
\* assignment
TeleWrite ==
  /\ cs.loop = "run" /\ cs.cur = "tele" /\ cs.tele_pc = "t_write"
  /\ cs' = [cs EXCEPT !.latest[WriteOrder[cs.wi]] = cs.inbox,
                      !.wi = IF @ = Len(WriteOrder) THEN 1 ELSE @ + 1,
                      !.tele_pc = IF cs.wi = Len(WriteOrder) THEN "t_set"
                                  ELSE "t_write"]
  /\ SyncStays

\* self._trcv.set(); back to the async for
TeleSet ==
  /\ cs.loop = "run" /\ cs.cur = "tele" /\ cs.tele_pc = "t_set"
  /\ cs' = [cs EXCEPT !.trcv = TRUE, !.tele_pc = "t_recv", !.cur = "none",
                      !.ready_q = block_q(cs, "tele")]
  /\ SyncStays

MainThread ==
  \/ Connnect \/ ConnnectReturn
  \/ GetterWait \/ GetterRead \/ GetterClear
  \/ SetPressuresClear \/ SetPressuresPut \/ SetPressuresReturn
  \/ DisconnectPut \/ DisconnectStop \/ DisconnectCancel
  \/ DisconnectJoin \/ DisconnectClear

BackgroundThread ==
  \/ RunCreateTasks \/ RunConnected \/ RunReady \/ RunResume
  \/ LoopPick \/ LoopSleep
  \/ CtrlStart \/ CtrlWhile \/ CtrlItem \/ CtrlAck
  \/ TeleStart \/ TeleCheckStop \/ TeleWrite \/ TeleSet

SyncInit ==
  /\ FeatureIdle
  /\ InterpolIdle
  /\ PairIdle
  /\ PixelIdle
  /\ cs = ClientSync_init

SyncNext == MainThread \/ BackgroundThread \/ TelemetryArrives

\* Both threads are scheduled fairly; the arrival of telemetry is up to the
\* robot.
SyncSpec ==
  SyncInit /\ [][SyncNext]_vars
    /\ WF_vars(MainThread) /\ WF_vars(BackgroundThread)

\* ------------------------------------------- get_angles on sensor readings
\* the sensors of a call: the pixels of a sensor in wiring order or rotated,
\* the raw temperature at the offset of the default configuration or above
SensorSet ==
  { [pixels |-> [i \in 1..PIXELS |-> PixelReadings[((i + r) % PIXELS) + 1]],
     temperature |-> DEFAULT_T_OFFSET + dt] : r \in {0, 1}, dt \in {0, 2} }
RECURSIVE SeqsUpTo(_, _)
SeqsUpTo(S, n) ==
  IF n = 0 THEN {<<>>}
  ELSE SeqsUpTo(S, n - 1)
         \cup {Append(q, x) : q \in {w \in SeqsUpTo(S, n - 1) : Len(w) = n - 1},
                              x \in S}
SensorSeqs == SeqsUpTo(SensorSet, MaxSensors)

\* Interpol(path, t_offset=..., gain_xy=1024, gain_z=512) on a table with one
\* or two calibrated joints: the filter attributes and self.estimator
FeatureInstances ==
  { [st |-> [interpolators |-> r.interpolators, population |-> r.population,
             sigma |-> r.sigma, use_out |-> r.use_out, use_iir |-> r.use_iir,
             weight |-> r.weight, samples |-> <<>>, iir_state |-> None],
     est |-> estimator_init([t_offset |-> t, dec_len |-> FH3D04_BASIC_DEC_LEN,
                             gain_xy |-> INTERPOL_GAIN_XY,
                             gain_z |-> INTERPOL_GAIN_Z,
                             supply |-> FH3D04_BASIC_SUPPLY])] :
    r \in { Interpol_init([keys |-> 0..14, present |-> pr, scalar |-> {}],
                          1, 3, 0, uo, FALSE) :
            pr \in {{3}, {0, 1}}, uo \in BOOLEAN },
    t \in {3998, DEFAULT_T_OFFSET} }

FeatureInit ==
  /\ InterpolIdle
  /\ PairIdle
  /\ PixelIdle
  /\ SyncIdle
  /\ fe \in FeatureInstances
  /\ fcall = NoFeatureCall

\* interpol.get_angles(sensors): the count check, the sensor loop when the
\* check lets the call through, the filters
GetAnglesOfSensors ==
  /\ fcall.ops < MaxFeatureOps
  /\ \E kind \in SensorKinds, sensors \in SensorSeqs :
     \E r \in {get_angles(fe.st, kind, Len(sensors))} :
       /\ fe' = [fe EXCEPT !.st.samples = r.samples,
                           !.st.iir_state = r.iir_state]
       /\ fcall' = [ops |-> fcall.ops + 1, kind |-> kind, sensors |-> sensors,
                    res |-> r.res, where |-> r.where,
                    rows |-> IF r.where = "count" THEN <<>>
                             ELSE ravel_rows(sensor_loop(fe.est, sensors,
                                                     Len(fe.st.interpolators)))]
  /\ UNCHANGED <<interpol_vars, pair_vars, pixel_vars, sync_vars>>

FeatureNext == GetAnglesOfSensors

FeatureSpec == FeatureInit /\ [][FeatureNext]_vars

\* ================================================================ claims
K == Len(interpolators)
Fitted == {interpolators[i] : i \in 1..K}
Ascending == \A i \in 1..K, j \in 1..K : i < j => interpolators[i] < interpolators[j]
NullJoints == table.keys \ table.present

\* every component of a lies in [mean - k*std, mean + k*std] of population pop
InBand(a, pop, k) ==
  LET means == np_mean(pop)
      std == np_std(pop)
  IN \A j \in 1..Len(a) : \A c \in 1..FEATURE_LEN :
       /\ means[j][c] - k * std[j][c] <= a[j][c]
       /\ a[j][c] <= means[j][c] + k * std[j][c]

\* C1: on a fresh estimator with the outlier filter enabled at capacity
\* P >= 1, while only get_angles calls with a valid sensor count were made,
\* each of the first P-1 calls returns NotReady and the P-th an estimate.
C1_WarmUpLength ==
  (pc = "ready" /\ use_out /\ population >= 1 /\ direct = 0 /\ all_valid
     /\ calls >= 1)
  => /\ (calls <= population - 1 => last.res = "NotReady")
     /\ (calls = population => last.res = "angles")

\* C2: a get_angles call whose number of sensors differs from the number of
\* interpolators raises the validation error (the ValueError of the count
\* check) and returns nothing.
C2_CountMismatchRaises ==
  (last.op = "get_angles" /\ last.n # K)
  => (last.res = "ValueError" /\ last.where = "count")

\* C3: a get_angles call with one sensor per interpolator raises nothing: it
\* returns NotReady or one angle entry per joint.
C3_ValidCallCompletes ==
  (last.op = "get_angles" /\ last.n = K)
  => (last.res = "NotReady" \/ (last.res = "angles" /\ last.nangles = K))

\* C4: a get_angles call that returns an estimate with the outlier filter
\* enabled (k >= 0) has pushed its raw, unclipped sample into the FIFO,
\* evicting the oldest entry.
C4_RawSamplePushed ==
  (last.op = "get_angles" /\ last.res = "angles" /\ use_out /\ sigma >= 0)
  => samples = deque_append(last.samples0, last.raw.a, population)

\* C5 as stated (for P >= 1, k >= 0 and a weight in (0, 1)): the
\* pre-interpolation vector of a get_angles call that returns an estimate
\* lies within mean +- k*sigma of the FIFO population held at the start of
\* the call.
C5_PreInterpolationInBand ==
  (last.op = "get_angles" /\ last.res = "angles" /\ use_out
     /\ population >= 1 /\ sigma >= 0 /\ 0 < weight /\ weight < W_DEN
     /\ last.pre.tag = "arr")
  => InBand(last.pre.a, last.samples0, sigma)

\* C5 amended: once warmed up (P >= 1), for any sample and any k >= 0, the
\* vector the outlier filter returns (the feature vector before the IIR
\* smoothing) lies within mean +- k*sigma of the FIFO population held at the
\* start of the call, in get_angles and in a call of filter_outliers.
C5_ClippedInBand ==
  /\ (last.op = "get_angles" /\ use_out /\ last.clipped.tag = "arr"
        /\ population >= 1 /\ sigma >= 0)
     => InBand(last.clipped.a, last.samples0, sigma)
  /\ (last.op = "filter_outliers" /\ last.clipped.tag = "arr" /\ population >= 1)
     => InBand(last.clipped.a, last.samples0, last.sig_mul)

\* a warmed-up call whose sample lay outside the band and was clipped into it
C5_Witness ==
  /\ last.op = "get_angles" /\ last.res = "angles" /\ use_out
  /\ population >= 1 /\ sigma >= 0 /\ K >= 1
  /\ last.clipped # last.raw

\* C6: after warm-up, with both filters enabled (k >= 0, a weight in (0, 1)),
\* each further get_angles call fed the same vector v brings every component
\* of the smoothed vector closer to v by the factor (1 - w), up to one unit
\* of rounding.
C6_IirConverges ==
  (last.op = "get_angles" /\ last.res = "angles" /\ use_out /\ use_iir
     /\ sigma >= 0 /\ 0 < weight /\ weight < W_DEN
     /\ last.iir0.tag = "arr" /\ last.pre.tag = "arr")
  => \A j \in 1..K : \A c \in 1..FEATURE_LEN :
       W_DEN * Abs(last.pre.a[j][c] - last.raw.a[j][c])
         <= (W_DEN - weight) * Abs(last.iir0.a[j][c] - last.raw.a[j][c]) + W_DEN

\* C7: no estimator exists whose IIR new-sample weight is outside (0, 1).
C7_WeightChecked ==
  pc = "ready" => (0 < weight /\ weight < W_DEN)

\* C8: no estimator exists whose outlier population capacity is P <= 0.
C8_PopulationChecked ==
  pc = "ready" => population >= 1

\* C9 as stated: a table with a joint whose entry is null makes the
\* construction fail.
C9_AbsentJointRejected ==
  (pc # "new" /\ NullJoints # {}) => ctor_err # "ok"

\* C9 amended: a joint whose entry in the calibration table is null is not
\* reported at load time: construction raises nothing on its account and
\* fits no interpolator for it.  What construction reports eagerly is a
\* joint index below 15 that is no key of the table (KeyError).
C9_AbsentJointSkipped ==
  pc # "new" =>
    /\ (ctor_err = "KeyError") = (/\ table.scalar = {}
                                  /\ \E idx \in 0..(NUM_JOINTS - 1) : idx \notin table.keys)
    /\ (ctor_err = "ValueError") => population < 0
    /\ pc = "ready" => /\ Fitted \cap NullJoints = {}
                       /\ K = Cardinality(Fitted)

\* an estimator built from a table with a null joint and a calibrated one
C9_Witness ==
  pc = "ready" /\ NullJoints # {} /\ K >= 1

\* C10 as stated: construction fits one interpolator per joint present in
\* the table, whatever the table's joints.
C10_OnePerPresentJoint ==
  pc = "ready" => (Fitted = table.present /\ K = Cardinality(table.present))

\* C10 amended, the fit: for a table with an entry for every joint index
\* 0..14, construction fits exactly one interpolator per joint with a non-null
\* entry among the indexes 0..14, in joint-index order (an entry with a larger
\* index is ignored).
C10_InterpolatorsInv ==
  pc = "ready" =>
    /\ Fitted = table.present \cap (0..(NUM_JOINTS - 1))
    /\ K = Cardinality(Fitted)
    /\ Ascending

\* C10 amended, whole: the fit above holds in every state, and no step taken
\* on a built estimator (get_angles, filter_outliers) changes interpolators.
C10_OnePerJointBelow15 ==
  /\ []C10_InterpolatorsInv
  /\ [][pc = "ready" => interpolators' = interpolators]_vars

\* an estimator with two interpolators on which get_angles was called
C10_Witness ==
  pc = "ready" /\ K = 2 /\ calls >= 1

\* C11 as stated: a table whose samples carry a single-float angle loads.
C11_ScalarAngleLoads ==
  (pc # "new" /\ table.scalar # {}) => ctor_err = "ok"

\* C11 amended: a table whose samples carry 2-component angles loads and
\* every angle array get_angles returns has two components per joint; a
\* table with a sample whose angle is a single float does not load:
\* construction fails with a TypeError.
C11_AnglePairsOnly ==
  /\ pc # "new" => ((ctor_err = "TypeError") = (table.scalar # {}))
  /\ (last.op = "get_angles" /\ last.res = "angles") => last.ncomp = 2

\* a construction from a table with a single-float angle
C11_Witness ==
  pc = "failed" /\ table.scalar # {}

\* C12: a get_angles call in which the outlier filter reports NotReady
\* returns NotReady for the whole call: no angle entry, no interpolator
\* evaluated, the IIR accumulator unset before and after, and the only
\* change of the estimator is the push of the call's sample into the FIFO.
C12_NotReadyIsWhole ==
  [][(calls' = calls + 1 /\ last'.res = "NotReady")
       => /\ last'.nangles = 0 /\ last'.ncomp = 0 /\ last'.pre = None
          /\ iir_state = None /\ iir_state' = None
          /\ samples' = Append(samples, last'.raw.a)
          /\ UNCHANGED <<interpolators, population, sigma, use_out, use_iir,
                         weight>>]_vars

\* a call that returned NotReady on an estimator with the smoother enabled
C12_Witness ==
  /\ last.op = "get_angles" /\ last.res = "NotReady"
  /\ use_out /\ use_iir /\ K >= 1 /\ Len(samples) = Len(last.samples0) + 1

\* C17: with the outlier filter enabled (P >= 1), a get_angles call with one
\* sensor per interpolator returns NotReady exactly when the FIFO holds fewer
\* than P entries at the start of the call.
C17_NotReadyIffWarmingUp ==
  (last.op = "get_angles" /\ use_out /\ population >= 1 /\ last.n = K)
  => ((last.res = "NotReady") = (Len(last.samples0) < population))

\* C18: the FIFO never holds more than P entries, and a get_angles call that
\* does not raise, made with the outlier filter enabled, appends exactly one
\* entry: after the old entries while the FIFO is short of P, in place of the
\* oldest entry once it is full (a FIFO of capacity 0 keeps nothing).
C18_OnePushPerCall ==
  /\ pc = "ready" => Len(samples) <= population
  /\ (last.op = "get_angles" /\ use_out /\ last.res \in {"NotReady", "angles"})
     => LET n0 == Len(last.samples0) IN
        IF n0 < population
        THEN Len(samples) = n0 + 1 /\ SubSeq(samples, 1, n0) = last.samples0
        ELSE IF population = 0 THEN samples = <<>>
        ELSE /\ Len(samples) = population
             /\ SubSeq(samples, 1, population - 1) = Tail(last.samples0)

\* a call on a full FIFO of two entries that evicted the oldest one
C18_Witness ==
  /\ last.op = "get_angles" /\ last.res = "angles" /\ use_out
  /\ population = 2 /\ Len(last.samples0) = 2 /\ K >= 1
  /\ samples # last.samples0

\* C19: whenever the smoothing filter runs with its state unset (P >= 1), for
\* every combination of the two flags, the FIFO holds a full population of P
\* samples and the call returns the smoothed estimate.
C19_SeedFromFullPopulation ==
  (/\ last.op = "get_angles" /\ use_iir /\ population >= 1 /\ K >= 1
   /\ last.res = "angles" \/ (last.res = "ValueError" /\ last.where = "iir")
   /\ last.iir0 = None)
  => (Len(samples) = population /\ last.res = "angles")

\* C20: a get_angles call that fails in the sensor count check leaves the
\* FIFO and the IIR accumulator as they were.
C20_FailedCallChangesNothing ==
  (last.op = "get_angles" /\ last.where = "count")
  => (samples = last.samples0 /\ iir_state = last.iir0)

\* a call rejected for its sensor count on an estimator holding samples
C20_Witness ==
  /\ last.op = "get_angles" /\ last.res = "ValueError" /\ last.where = "count"
  /\ last.n # K /\ Len(samples) >= 1

\* C13: filter state is owned per estimator instance: a call on one of two
\* estimators leaves the FIFO and the IIR accumulator of the other unchanged,
\* and the state and the outputs of each estimator are those it has when it
\* is fed its own calls alone.
C13_OwnHistoryOnly ==
  /\ pair = solo
  /\ pair_last.res = pair_last.solo_res
  /\ pair_last.pre = pair_last.solo_pre
C14_CalibrationIdentity ==
  (px.done /\ px.temperature = hw.config.t_offset
     /\ px.x = 0 /\ px.y = 0 /\ px.z = 0)
  => /\ px.b = <<ZeroFlux, ZeroFlux, ZeroFlux>>
     /\ px.t = [whole |-> 25, nano |-> ZeroFrac]

\* the identity case on a configuration that differs from the defaults
C14_Witness ==
  /\ px.done /\ px.temperature = hw.config.t_offset
  /\ px.x = 0 /\ px.y = 0 /\ px.z = 0
  /\ hw.config.t_offset # DEFAULT_T_OFFSET /\ hw.config.dec_len = 1024
  /\ hw.config.gain_xy = 1024

\* C15: two consecutive getter calls of one caller thread return data from
\* different telemetry ticks, under every interleaving with the telemetry
\* consumer.
C15_DifferentTicks ==
  \A i \in 1..(Len(cs.got) - 1) : cs.got[i] # cs.got[i + 1]

\* C16: after connnect has returned, a call to disconnect eventually
\* returns, with the background thread terminated and the connected flag
\* cleared.
C16_DisconnectReturns ==
  (cs.main = "d_stop")
    ~> (cs.main = "closed" /\ cs.loop = "done" /\ ~cs.connected)

\* the feature vector of the claim: the pixels at the indices 3, 0, 2, 1,
\* each calibrated, then out = -[in.x, in.z, in.y], pixel-major
ClaimedOrder == <<3, 0, 2, 1>>
claimed_row(est, sensor) ==
  LET cal(p) == calculate_sensor(est, p.x, p.y, p.z, sensor.temperature).b
      out(p) == <<neg_flux(cal(p)[1]), neg_flux(cal(p)[3]), neg_flux(cal(p)[2])>>
  IN [c \in 1..FEATURE_LEN |->
        out(sensor.pixels[ClaimedOrder[((c - 1) \div AXES) + 1] + 1])
          [((c - 1) % AXES) + 1]]

\* C21: a get_angles call with one sensor per joint builds, for each joint,
\* the 12-component feature vector in pixel-major, axis-minor order from the
\* joint's four pixels taken in the order [3,0,2,1], each calibrated and then
\* axis-remapped as -[x, z, y].
C21_FeatureVector ==
  (fcall.ops > 0 /\ Len(fcall.sensors) >= 1
     /\ Len(fcall.sensors) = Len(fe.st.interpolators))
  => /\ Len(fcall.rows) = Len(fcall.sensors)
     /\ \A j \in 1..Len(fcall.sensors) :
          fcall.rows[j] = claimed_row(fe.est, fcall.sensors[j])

\* the vectors the control stream has taken
Taken == {cs.sent[i] : i \in 1..Len(cs.sent)}

\* a set_pressures call has returned only if the control stream has taken
\* its vector
C22_ReturnsAfterTaken ==
  \A v \in 1..cs.nsets :
    (v < cs.nsets \/ cs.main \notin {"s_put", "s_wait"}) => v \in Taken

\* the vectors reach the control stream in the order of the calls
C22_InOrder ==
  \A i \in 1..Len(cs.sent) : \A j \in 1..Len(cs.sent) :
    i < j => cs.sent[i] < cs.sent[j]

\* a call that waits for the control stream returns
C22_NeverBlocksForever ==
  (cs.main = "s_wait" /\ ~TaskDone(cs.ctrl_pc)) ~> (cs.main # "s_wait")

\* C22: on a connected ClientSync a set_pressures call with timeout None
\* returns only after the control stream has taken that call's own pressure
\* vector, the vectors reach the control stream in the order of the calls,
\* and a call made while the control stream is live never blocks forever.
C22_SetPressuresContract ==
  /\ []C22_ReturnsAfterTaken
  /\ []C22_InOrder
  /\ C22_NeverBlocksForever

====
